---- MODULE Spec2Model ----
(***************************************************************************)
(* A model of automate.py: the keyed replacer update_all_json_key, the     *)
(* tree walker update_all_json_key_func, evaluate_vars,                    *)
(* configure_terrain_file and the run loop of main.                        *)
(*                                                                         *)
(* A Python str is a sequence of symbols (one-character strings, or a word *)
(* standing for a fixed piece of text such as <<"Nodes">>), so that        *)
(* str.split, int() and str() are computed on the text.                    *)
(* A JSON value is a record tagged with the name of its Python type:       *)
(*   int  [t, n]   str [t, s]   bool [t, b]   dict [t, kv]   list [t, items]*)
(* and a dict keeps its items as a sequence of <<key, value>> pairs in     *)
(* insertion order, which is the order dict.items() iterates in.           *)
(***************************************************************************)
EXTENDS Integers, Sequences, FiniteSets, TLC

VARIABLES
    pc,                     \* position of the program / of the call under check
    exception,              \* name of the exception that ended the program, or "none"
    raised_at,              \* position at which it was raised
    \* ---- update_all_json_key(json_obj, key, new_values)
    json_obj, key, new_values,
    json_before,            \* json_obj as it was when the call was made
    values_before,          \* new_values as it was when the call was made
    assigned,               \* number of obj[k] = next(value_iter) executed by update_key
    \* ---- evaluate_vars / main
    args,                   \* the command-line arguments
    vars,                   \* the variable table of the current run
    i,                      \* loop counter of main
    original_terrain_json,  \* the document main loaded
    output_filepath,
    terrain_data,           \* the document configure_terrain_file works on
    entry_data,             \* terrain_data as it was on entry to configure_terrain_file
    bindings, b,            \* the collected bindings and the index of the next one
    before_binding,         \* terrain_data before the binding processed last
    temp_file,              \* content of the temporary terrain file
    dumps,                  \* run numbers whose document was written to the temp file
    builds                  \* run numbers in which Gaea.Swarm.exe was started

vars_all == <<pc, exception, raised_at, json_obj, key, new_values, json_before,
              values_before, assigned, args, vars, i, original_terrain_json,
              output_filepath, terrain_data, entry_data, bindings, b,
              before_binding, temp_file, dumps, builds>>

----------------------------------------------------------------------------
(* Bounds of the model *)

\* int leaves of the generated documents are 0..MaxInt
MaxInt == 0
\* new_values has at most MaxVals entries
MaxVals == 3

----------------------------------------------------------------------------
(* JSON values *)

JInt(n) == [t |-> "int", n |-> n]
JStr(s) == [t |-> "str", s |-> s]
JBool(v) == [t |-> "bool", b |-> v]
JDict(kv) == [t |-> "dict", kv |-> kv]
JList(items) == [t |-> "list", items |-> items]
JNone == [t |-> "NoneType"]

\* isinstance(v, type(value_sample)): bool is a subclass of int in Python
isinstance(v, value_sample) ==
    \/ v.t = value_sample.t
    \/ v.t = "bool" /\ value_sample.t = "int"

\* k in d, d[k], d[k] = v (an existing key keeps its place, a new one is appended)
HasKey(d, k) == \E j \in 1..Len(d.kv) : d.kv[j][1] = k
GetItem(d, k) == d.kv[CHOOSE j \in 1..Len(d.kv) : d.kv[j][1] = k][2]
SetItem(d, k, v) ==
    IF HasKey(d, k)
    THEN JDict([j \in 1..Len(d.kv) |->
                 IF d.kv[j][1] = k THEN <<k, v>> ELSE d.kv[j]])
    ELSE JDict(Append(d.kv, <<k, v>>))

----------------------------------------------------------------------------
(* Text: int(), str() and str.split on sequences of symbols *)

DigitChars == <<"0", "1", "2", "3", "4", "5", "6", "7", "8", "9">>
IsDigit(c) == \E d \in 1..10 : DigitChars[d] = c
DigitValue(c) == (CHOOSE d \in 1..10 : DigitChars[d] = c) - 1

\* the number a non-empty run of decimal digits denotes
RECURSIVE DigitsValue(_)
DigitsValue(s) ==
    IF s = <<>> THEN 0
    ELSE 10 * DigitsValue(SubSeq(s, 1, Len(s) - 1)) + DigitValue(s[Len(s)])
IsDigits(s) == s # <<>> /\ \A j \in 1..Len(s) : IsDigit(s[j])

\* str(n) of an int
RECURSIVE NatStr(_)
NatStr(n) ==
    IF n < 10 THEN <<DigitChars[n + 1]>>
    ELSE Append(NatStr(n \div 10), DigitChars[(n % 10) + 1])
IntStr(n) == IF n < 0 THEN <<"-">> \o NatStr(0 - n) ELSE NatStr(n)

\* str(v) of a value of the variable table
PyStr(v) == IF v.t = "int" THEN IntStr(v.n) ELSE <<"<function <lambda>>">>

\* s.split(sep) for a one-symbol separator: s is cut at every sep
RECURSIVE Split(_, _)
Split(s, sep) ==
    IF \A j \in 1..Len(s) : s[j] # sep THEN <<s>>
    ELSE LET j == CHOOSE m \in 1..Len(s) :
                     s[m] = sep /\ \A q \in 1..(m - 1) : s[q] # sep
         IN <<SubSeq(s, 1, j - 1)>> \o Split(SubSeq(s, j + 1, Len(s)), sep)

----------------------------------------------------------------------------
(* update_all_json_key *)

Counted(n) == [raised |-> FALSE, count |-> n]
TypeMismatch == [raised |-> TRUE, count |-> 0]

RECURSIVE count_and_check_keys(_, _, _)
RECURSIVE count_items(_, _, _, _)
RECURSIVE count_list(_, _, _, _)

\* the loop over obj.items() from item j on
count_items(kv, j, k0, value_sample) ==
    IF j > Len(kv) THEN Counted(0)
    ELSE LET k == kv[j][1]
             v == kv[j][2]
         IN IF k = k0 /\ ~isinstance(v, value_sample) THEN TypeMismatch
            ELSE LET sub == count_and_check_keys(v, k0, value_sample)
                     rest == count_items(kv, j + 1, k0, value_sample)
                 IN IF sub.raised \/ rest.raised THEN TypeMismatch
                    ELSE Counted((IF k = k0 THEN 1 ELSE 0) + sub.count + rest.count)

\* the loop over a list from item j on
count_list(items, j, k0, value_sample) ==
    IF j > Len(items) THEN Counted(0)
    ELSE LET sub == count_and_check_keys(items[j], k0, value_sample)
             rest == count_list(items, j + 1, k0, value_sample)
         IN IF sub.raised \/ rest.raised THEN TypeMismatch
            ELSE Counted(sub.count + rest.count)

count_and_check_keys(obj, k0, value_sample) ==
    IF obj.t = "dict" THEN count_items(obj.kv, 1, k0, value_sample)
    ELSE IF obj.t = "list" THEN count_list(obj.items, 1, k0, value_sample)
    ELSE Counted(0)

RECURSIVE update_key(_, _, _)
RECURSIVE update_items(_, _, _, _)
RECURSIVE update_list(_, _, _, _)

\* update_key returns the object after the pass and what is left of value_iter;
\* stop is set when next(value_iter) found the iterator exhausted
Updated(obj, it, stop) == [obj |-> obj, it |-> it, stop |-> stop]

update_items(kv, j, k0, value_iter) ==
    IF j > Len(kv) THEN Updated(kv, value_iter, FALSE)
    ELSE LET k == kv[j][1]
             v == kv[j][2]
         IN IF k = k0
            THEN IF value_iter = <<>> THEN Updated(kv, value_iter, TRUE)
                 ELSE update_items([kv EXCEPT ![j] = <<k, Head(value_iter)>>],
                                   j + 1, k0, Tail(value_iter))
            ELSE LET sub == update_key(v, k0, value_iter)
                 IN IF sub.stop THEN Updated([kv EXCEPT ![j] = <<k, sub.obj>>], sub.it, TRUE)
                    ELSE update_items([kv EXCEPT ![j] = <<k, sub.obj>>],
                                      j + 1, k0, sub.it)

update_list(items, j, k0, value_iter) ==
    IF j > Len(items) THEN Updated(items, value_iter, FALSE)
    ELSE LET sub == update_key(items[j], k0, value_iter)
         IN IF sub.stop THEN Updated([items EXCEPT ![j] = sub.obj], sub.it, TRUE)
            ELSE update_list([items EXCEPT ![j] = sub.obj], j + 1, k0, sub.it)

update_key(obj, k0, value_iter) ==
    IF obj.t = "dict"
    THEN LET r == update_items(obj.kv, 1, k0, value_iter)
         IN Updated(JDict(r.obj), r.it, r.stop)
    ELSE IF obj.t = "list"
    THEN LET r == update_list(obj.items, 1, k0, value_iter)
         IN Updated(JList(r.obj), r.it, r.stop)
    ELSE Updated(obj, value_iter, FALSE)

\* new_values *= occurrences (in place: the caller's list is changed too)
Repeat(vs, n) == [j \in 1..(Len(vs) * n) |-> vs[((j - 1) % Len(vs)) + 1]]

\* faulty variant: more values than occurrences are accepted
CountMatches_AtLeast(vs, occurrences) == Len(vs) >= occurrences
CountMatches(vs, occurrences) == Len(vs) = occurrences

\* The whole call: the exception it ends with ("none" when it returns), the
\* object and the list after it, and the number of assignments update_key made.
update_all_json_key(obj, k0, values) ==
    IF values = <<>>
    THEN [exc |-> "ValueError: empty", obj |-> obj, values |-> values, assigned |-> 0]
    ELSE LET dry == count_and_check_keys(obj, k0, values[1])
         IN IF dry.raised
            THEN [exc |-> "TypeError", obj |-> obj, values |-> values, assigned |-> 0]
            ELSE LET occurrences == dry.count
                     vs == IF Len(values) = 1 THEN Repeat(values, occurrences) ELSE values
                 IN IF ~CountMatches(vs, occurrences)
                    THEN [exc |-> "ValueError: count", obj |-> obj, values |-> vs,
                          assigned |-> 0]
                    ELSE LET r == update_key(obj, k0, vs)
                         IN [exc |-> IF r.stop THEN "StopIteration" ELSE "none",
                             obj |-> r.obj, values |-> vs,
                             assigned |-> Len(vs) - Len(r.it)]

----------------------------------------------------------------------------
(* evaluate_vars *)
(* An assignment is text over the symbols of a name ("s", "t"), "=",       *)
(* decimal digits, "lambda" (the text "lambda: ") and "rand" (the text of  *)
(* a random draw, random.randint(0, 1)).                                 *)

JFunction == [t |-> "function"]

\* int(var_expression): the value, or ValueError
int_ok(expr) == IsDigits(expr)

\* A decimal literal of Python source: no leading zero unless it is all zeros
IsIntLiteral(s) ==
    /\ IsDigits(s)
    /\ s[1] = "0" => \A j \in 1..Len(s) : s[j] = "0"

\* the text is an expression eval() accepts and whose call returns
RECURSIVE IsLambdaSource(_)
IsLambdaSource(expr) ==
    /\ expr # <<>>
    /\ expr[1] = "lambda"
    /\ LET body == Tail(expr)
       IN IsIntLiteral(body) \/ body = <<"rand">> \/ IsLambdaSource(body)

\* eval(var_expression)(): raised, or the value; draw is what a random draw gives
eval_call(expr, draw) ==
    IF ~IsLambdaSource(expr) THEN [raised |-> TRUE, value |-> JNone]
    ELSE LET body == Tail(expr)
         IN [raised |-> FALSE,
             value |-> IF IsIntLiteral(body) THEN JInt(DigitsValue(body))
                       ELSE IF body = <<"rand">> THEN JInt(draw)
                       ELSE JFunction]

\* line 114: var_name, var_expression = var_assignment.split('=')
split_assignment(var_assignment) == Split(var_assignment, "=")

\* One pass of the loop body for var_assignment on the table so far
evaluate_one(table, var_assignment, draw) ==
    LET parts == split_assignment(var_assignment)
    IN IF Len(parts) # 2 THEN [exc |-> "ValueError: unpack", vars |-> table]
       ELSE LET var_name == parts[1]
                var_expression == parts[2]
            IN IF \E j \in 1..Len(var_expression) : var_expression[j] = "lambda"
               THEN LET r == eval_call(var_expression, draw)
                    IN [exc |-> "none",
                        vars |-> IF r.raised THEN table
                                 ELSE SetItem(table, var_name, r.value)]
               ELSE [exc |-> "none",
                     vars |-> IF int_ok(var_expression)
                              THEN SetItem(table, var_name,
                                           JInt(DigitsValue(var_expression)))
                              ELSE table]

\* the loop over args['vars'] from assignment j on; draws[j] is the draw of the j-th
RECURSIVE evaluate_from(_, _, _, _)
evaluate_from(table, assignments, j, draws) ==
    IF j > Len(assignments) THEN [exc |-> "none", vars |-> table]
    ELSE LET r == evaluate_one(table, assignments[j], draws[j])
         IN IF r.exc # "none" THEN r
            ELSE evaluate_from(r.vars, assignments, j + 1, draws)

\* args['vars'] is None or empty without -var: the table is empty
evaluate_vars(a, draws) == evaluate_from(JDict(<<>>), a.vars, 1, draws)

\* bound: an assignment has at most MaxStrLen symbols
MaxStrLen == 4
\* what a random draw can give
RandomDraws == {0, 1}

Symbols == {"s", "=", "0", "4", "lambda", "rand"}
Texts == UNION {[1..n -> Symbols] : n \in 1..MaxStrLen}
GoodAssignment == <<"t", "=", "7">>
AssignmentLists ==
    {<<>>} \cup {<<a>> : a \in Texts} \cup {<<GoodAssignment, a>> : a \in Texts}
           \cup {<<a, GoodAssignment>> : a \in Texts}

Draws(assignments) == [1..Len(assignments) -> RandomDraws]

InitVars ==
    /\ pc = "evaluate_vars" /\ exception = "none" /\ raised_at = "none"
    /\ args \in {[terrain |-> [t |-> "absent"], vars |-> l, num_runs |-> 1,
                  increment_filepath |-> FALSE] : l \in AssignmentLists}
    /\ vars = JDict(<<>>) /\ i = 0
    /\ json_obj = [t |-> "absent"] /\ key = <<>> /\ new_values = <<>>
    /\ json_before = [t |-> "absent"] /\ values_before = <<>> /\ assigned = 0
    /\ original_terrain_json = [t |-> "absent"]
    /\ output_filepath = <<>> /\ terrain_data = [t |-> "absent"]
    /\ entry_data = [t |-> "absent"]
    /\ bindings = <<>> /\ b = 0 /\ before_binding = [t |-> "absent"]
    /\ temp_file = [t |-> "absent"] /\ dumps = <<>> /\ builds = <<>>

CallEvaluateVars ==
    /\ pc = "evaluate_vars"
    /\ \E draws \in Draws(args.vars) :
          LET r == evaluate_vars(args, draws)
          IN /\ vars' = r.vars
             /\ exception' = r.exc
             /\ raised_at' = IF r.exc = "none" THEN "none" ELSE "evaluate_vars"
             /\ pc' = IF r.exc = "none" THEN "returned" ELSE "raised"
    /\ UNCHANGED <<json_obj, key, new_values, json_before, values_before, assigned,
                   args, i, original_terrain_json, output_filepath,
                   terrain_data, entry_data, bindings, b, before_binding,
                   temp_file, dumps, builds>>

NextVars == CallEvaluateVars
SpecVars == InitVars /\ [][NextVars]_vars_all

----------------------------------------------------------------------------
(* update_all_json_key_func: the walker *)
(* A path is a sequence of steps, [k |-> key] into a dict item and         *)
(* [ix |-> j] into a list item.  The walker is modelled by the paths of    *)
(* the items update_func is called on, in the order of the calls: the item *)
(* of every dict whose key is the target; the value of such an item is not *)
(* walked into.  The callbacks of this program change only what lies under *)
(* the matched item, which the walker does not visit afterwards, so        *)
(* applying them to the paths in order is what the walk does.              *)

RECURSIVE walk(_, _, _)
RECURSIVE walk_items(_, _, _, _)
RECURSIVE walk_list(_, _, _, _)
walk_items(kv, j, target_key, prefix) ==
    IF j > Len(kv) THEN <<>>
    ELSE (IF kv[j][1] = target_key
          THEN <<Append(prefix, [k |-> kv[j][1]])>>
          ELSE walk(kv[j][2], target_key, Append(prefix, [k |-> kv[j][1]])))
         \o walk_items(kv, j + 1, target_key, prefix)
walk_list(items, j, target_key, prefix) ==
    IF j > Len(items) THEN <<>>
    ELSE walk(items[j], target_key, Append(prefix, [ix |-> j]))
         \o walk_list(items, j + 1, target_key, prefix)
walk(obj, target_key, prefix) ==
    IF obj.t = "dict" THEN walk_items(obj.kv, 1, target_key, prefix)
    ELSE IF obj.t = "list" THEN walk_list(obj.items, 1, target_key, prefix)
    ELSE <<>>

update_all_json_key_func(obj, target_key) == walk(obj, target_key, <<>>)

IsKeyStep(st) == "k" \in DOMAIN st

\* the value the path leads to
RECURSIVE ValueAt(_, _)
ValueAt(obj, p) ==
    IF p = <<>> THEN obj
    ELSE IF IsKeyStep(Head(p)) THEN ValueAt(GetItem(obj, Head(p).k), Tail(p))
    ELSE ValueAt(obj.items[Head(p).ix], Tail(p))

\* the document with the value at the path replaced (an assignment through
\* the references the path stands for)
RECURSIVE PutAt(_, _, _)
PutAt(obj, p, v) ==
    IF p = <<>> THEN v
    ELSE IF IsKeyStep(Head(p))
    THEN SetItem(obj, Head(p).k, PutAt(GetItem(obj, Head(p).k), Tail(p), v))
    ELSE JList([obj.items EXCEPT ![Head(p).ix] = PutAt(@, Tail(p), v)])

----------------------------------------------------------------------------
(* configure_terrain_file *)

K_PostBuildScript == <<"PostBuildScript">>
K_Destination == <<"Destination">>
K_Variables == <<"Variables">>
K_Nodes == <<"Nodes">>
K_Bindings == <<"Bindings">>
K_values == <<"$values">>
K_Id == <<"Id">>
K_Node == <<"Node">>
K_Property == <<"Property">>
K_Variable == <<"Variable">>

Ok(doc) == [exc |-> "none", doc |-> doc]
Raise(name, doc) == [exc |-> name, doc |-> doc]

\* faulty variant: the value is stored as evaluated, without str()
variable_text_raw(v) == v
\* line 163: the value written into a Variables map
variable_text(v) == JStr(PyStr(v))

\* faulty variant: the map is rebuilt from the variables alone
update_variable_value_drop(obj, table) ==
    JDict(SelectSeq([j \in 1..Len(obj.kv) |->
                       <<obj.kv[j][1],
                         IF HasKey(table, obj.kv[j][1])
                         THEN variable_text(GetItem(table, obj.kv[j][1]))
                         ELSE obj.kv[j][2]>>],
                    LAMBDA e : HasKey(table, e[1])))
\* lines 159-163, on the map obj[key]
update_variable_value(obj, table) ==
    JDict([j \in 1..Len(obj.kv) |->
             IF HasKey(table, obj.kv[j][1])
             THEN <<obj.kv[j][1], variable_text(GetItem(table, obj.kv[j][1]))>>
             ELSE obj.kv[j]])

\* line 166: update_variable_value on the value of every 'Variables' item
RECURSIVE update_variables_from(_, _, _, _)
update_variables_from(doc, paths, j, table) ==
    IF j > Len(paths) THEN Ok(doc)
    ELSE IF ValueAt(doc, paths[j]).t # "dict" THEN Raise("AttributeError", doc)
    ELSE update_variables_from(
             PutAt(doc, paths[j], update_variable_value(ValueAt(doc, paths[j]), table)),
             paths, j + 1, table)
update_variables(doc, table) ==
    update_variables_from(doc, update_all_json_key_func(doc, K_Variables), 1, table)

\* line 181: bindings.extend(obj[key]['$values']) for every 'Bindings' item
RECURSIVE collect_bindings_from(_, _, _)
collect_bindings_from(doc, paths, j) ==
    IF j > Len(paths) THEN [exc |-> "none", bindings |-> <<>>]
    ELSE LET v == ValueAt(doc, paths[j])
         IN IF v.t # "dict" THEN [exc |-> "TypeError", bindings |-> <<>>]
            ELSE IF ~HasKey(v, K_values) THEN [exc |-> "KeyError", bindings |-> <<>>]
            ELSE IF GetItem(v, K_values).t # "list"
            THEN [exc |-> "TypeError", bindings |-> <<>>]
            ELSE LET rest == collect_bindings_from(doc, paths, j + 1)
                 IN [exc |-> rest.exc,
                     bindings |-> GetItem(v, K_values).items \o rest.bindings]
collect_bindings(doc) ==
    collect_bindings_from(doc, update_all_json_key_func(doc, K_Bindings), 1)

\* line 170-171: the nodes, as the paths of the dict values of every 'Nodes' map
DictItemPaths(doc, p) ==
    LET m == ValueAt(doc, p)
        idx == {j \in 1..Len(m.kv) : m.kv[j][2].t = "dict"}
        RECURSIVE from(_)
        from(j) == IF j > Len(m.kv) THEN <<>>
                   ELSE (IF j \in idx THEN <<Append(p, [k |-> m.kv[j][1]])>> ELSE <<>>)
                        \o from(j + 1)
    IN from(1)
RECURSIVE collect_nodes_from(_, _, _)
collect_nodes_from(doc, paths, j) ==
    IF j > Len(paths) THEN [exc |-> "none", nodes |-> <<>>]
    ELSE IF ValueAt(doc, paths[j]).t # "dict"
    THEN [exc |-> "AttributeError", nodes |-> <<>>]
    ELSE LET rest == collect_nodes_from(doc, paths, j + 1)
         IN [exc |-> rest.exc, nodes |-> DictItemPaths(doc, paths[j]) \o rest.nodes]
collect_nodes(doc) ==
    collect_nodes_from(doc, update_all_json_key_func(doc, K_Nodes), 1)

\* faulty variant: the comparison of line 174 left out
node_matches_any(node, node_id) == TRUE
\* line 174: the node is the one the binding names
node_matches(node, node_id) == GetItem(node, K_Id) = node_id

\* lines 173-176: the loop over the nodes from node j on
RECURSIVE update_nodes_from(_, _, _, _, _, _)
update_nodes_from(doc, nodes, j, node_id, property_name, new_value) ==
    IF j > Len(nodes) THEN Ok(doc)
    ELSE LET node == ValueAt(doc, nodes[j])
         IN IF ~HasKey(node, K_Id) THEN Raise("KeyError", doc)
            ELSE update_nodes_from(
                     IF node_matches(node, node_id)
                     THEN PutAt(doc, nodes[j], SetItem(node, property_name, new_value))
                     ELSE doc,
                     nodes, j + 1, node_id, property_name, new_value)

\* faulty variant: a binding without a node raises
update_node_property_strict(doc, node_id, property_name, new_value) ==
    LET found == collect_nodes(doc)
    IN IF found.exc # "none" THEN Raise(found.exc, doc)
       ELSE IF \A j \in 1..Len(found.nodes) :
                  ~node_matches(ValueAt(doc, found.nodes[j]), node_id)
       THEN Raise("NodeNotFoundError", doc)
       ELSE update_nodes_from(doc, found.nodes, 1, node_id, property_name, new_value)

\* lines 168-176
update_node_property(doc, node_id, property_name, new_value) ==
    LET found == collect_nodes(doc)
    IN IF found.exc # "none" THEN Raise(found.exc, doc)
       ELSE update_nodes_from(doc, found.nodes, 1, node_id, property_name, new_value)

\* lines 184-190: the body of the loop over the bindings
process_binding(doc, binding, table) ==
    IF binding.t # "dict" THEN Raise("TypeError", doc)
    ELSE IF ~HasKey(binding, K_Variable) THEN Raise("KeyError", doc)
    ELSE IF GetItem(binding, K_Variable).t # "str" THEN Raise("TypeError", doc)
    ELSE IF ~HasKey(table, GetItem(binding, K_Variable).s) THEN Ok(doc)
    ELSE IF ~HasKey(binding, K_Node) \/ ~HasKey(binding, K_Property)
    THEN Raise("KeyError", doc)
    ELSE IF GetItem(binding, K_Property).t # "str" THEN Raise("TypeError", doc)
    ELSE update_node_property(doc, GetItem(binding, K_Node),
                              GetItem(binding, K_Property).s,
                              GetItem(table, GetItem(binding, K_Variable).s))

----------------------------------------------------------------------------
(* main *)

\* line 256: original_terrain_json.copy() is a shallow copy.  The copy is a
\* new top-level dict whose values are the objects of the original: what
\* configure_terrain_file assigns to a top-level key of the copy is not seen
\* through the original, and what it changes inside a dict or list below
\* the top level is.  The only top-level assignments are those of
\* update_key, which replace a str by a str, so a top-level dict or list of
\* the original is still the same object as in the copy.
IsContainer(v) == v.t \in {"dict", "list"}
SeenThroughOriginal(original, copy) ==
    JDict([j \in 1..Len(original.kv) |->
             IF IsContainer(original.kv[j][2])
             THEN <<original.kv[j][1], GetItem(copy, original.kv[j][1])>>
             ELSE original.kv[j]])

\* line 250: f"{new_dir_number:03d}"
Pad3(n) == IF n < 10 THEN <<"0", "0">> \o NatStr(n)
           ELSE IF n < 100 THEN <<"0">> \o NatStr(n) ELSE NatStr(n)

\* lines 237-253: the base directory holds no numbered directory when the
\* program starts, so run i (from 0) finds the i directories of the runs before
run_output_filepath(a, run) ==
    IF a.increment_filepath THEN <<"out", "/">> \o Pad3(run + 1) ELSE <<"out">>

\* faulty variant: the exception is swallowed
AfterCall_Continue(exc, next) == next
\* lines 255-256: main catches nothing, so an exception raised in a call ends
\* the program; otherwise the program goes on to next
AfterCall(exc, next) == IF exc = "none" THEN next ELSE "raised"

\* bounds: main makes at most MaxRuns runs, a document declares at most
\* MaxBindings bindings
MaxRuns == 2
MaxBindings == 2

Binding(node_id, property_name, variable) ==
    JDict(<< <<K_Node, JInt(node_id)>>, <<K_Property, JStr(property_name)>>,
             <<K_Variable, JStr(variable)>> >>)
\* node 1 and node 2 exist in every document, node 9 in none; "Seed" is a
\* property of every node and "Scale" of none
BindingChoices ==
    {Binding(1, <<"Seed">>, <<"s">>), Binding(2, <<"Scale">>, <<"t">>),
     Binding(9, <<"Seed">>, <<"s">>), Binding(1, <<"Seed">>, <<"t">>)}
\* the lists of at most MaxBindings bindings, no binding twice
BindingLists ==
    {bl \in UNION {[1..n -> BindingChoices] : n \in 0..MaxBindings} :
        \A j \in 1..Len(bl) : \A m \in 1..Len(bl) : bl[j] = bl[m] => j = m}

Node(id) == JDict(<< <<K_Id, JInt(id)>>, <<(<<"Seed">>), JInt(0)>> >>)
\* a 'Nodes' map holds a "$id" string beside its nodes, as Gaea writes it
FirstNodes == JDict(<< <<(<<"$id">>), JStr(<<"1">>)>>, <<(<<"a">>), Node(1)>>,
                       <<(<<"b">>), Node(2)>> >>)
\* a second 'Nodes' map: none, one with an Id of its own, one repeating Id 1
SecondNodes(second) ==
    IF second = "none" THEN <<>>
    ELSE << <<(<<"Stages">>),
              JList(<<JDict(<< <<K_Nodes,
                  JDict(<< <<(<<"c">>), Node(IF second = "duplicate" THEN 1 ELSE 3)>> >>)
                  >> >>)>>)>> >>
\* the build section: well typed, or with a PostBuildScript or a Destination
\* that is not a str
BuildDefinition(build) ==
    JDict(<< <<K_Destination, IF build = "bad_destination" THEN JInt(0)
                              ELSE JStr(<<"old">>)>>,
             <<K_PostBuildScript, IF build = "bad_script" THEN JNone
                                  ELSE JStr(<<>>)>> >>)
Automation(bl) ==
    << <<K_Bindings, JDict(<< <<K_values, JList(bl)>> >>)>>,
       <<K_Variables, JDict(<< <<(<<"s">>), JStr(<<"0">>)>>,
                               <<(<<"t">>), JStr(<<"0">>)>> >>)>> >>
\* flat: the sections are items of the top-level dict (with a top-level
\* Destination); nested: they lie under Assets.$values[0], as Gaea writes them
Terrain(layout, second, build, bl) ==
    IF layout = "flat"
    THEN JDict(<< <<K_Destination, JStr(<<"old">>)>>,
                  <<(<<"BuildDefinition">>), BuildDefinition(build)>>,
                  <<K_Nodes, FirstNodes>> >>
               \o SecondNodes(second) \o Automation(bl))
    ELSE JDict(<< <<(<<"Assets">>), JDict(<< <<K_values, JList(<<
                     JDict(<< <<(<<"BuildDefinition">>), BuildDefinition(build)>>,
                              <<K_Nodes, FirstNodes>> >>
                           \o SecondNodes(second) \o Automation(bl)) >>)>> >>)>>,
                  <<K_Id, JStr(<<"f">>)>> >>)
\* well-typed documents carry a second 'Nodes' map (one whose node no binding
\* names behaves as a document without it); the ill-typed ones, which are
\* left before any binding is read, carry one 'Nodes' map and a short list
Terrains ==
    {Terrain(layout, second, "ok", bl) :
        layout \in {"flat", "nested"}, second \in {"distinct", "duplicate"},
        bl \in BindingLists}
    \cup
    {Terrain(layout, "none", build, bl) :
        layout \in {"flat", "nested"}, build \in {"bad_script", "bad_destination"},
        bl \in {l \in BindingLists : Len(l) <= 1}}

\* the -var options: none; an integer; a random draw and an integer; a text
\* that is no integer and an integer; an assignment with two "="
VarOptions ==
    { <<>>,
      << <<"s", "=", "4", "2">> >>,
      << <<"s", "=", "lambda", "rand">>, <<"t", "=", "7">> >>,
      << <<"s", "=", "4", "s">>, <<"t", "=", "7">> >>,
      << <<"s", "=", "4", "=", "2">> >> }

Init ==
    /\ pc = "for" /\ exception = "none" /\ raised_at = "none"
    /\ args \in {[terrain |-> d, vars |-> l, num_runs |-> n, increment_filepath |-> inc] :
                    d \in Terrains, l \in VarOptions, n \in {MaxRuns}, inc \in BOOLEAN}
    /\ original_terrain_json = args.terrain      \* lines 232-233
    /\ i = 0
    /\ vars = JDict(<<>>)
    /\ output_filepath = <<>>
    /\ terrain_data = [t |-> "absent"] /\ entry_data = [t |-> "absent"]
    /\ bindings = <<>> /\ b = 0 /\ before_binding = [t |-> "absent"]
    /\ temp_file = [t |-> "absent"] /\ dumps = <<>> /\ builds = <<>>
    /\ json_obj = [t |-> "absent"] /\ key = <<>> /\ new_values = <<>>
    /\ json_before = [t |-> "absent"] /\ values_before = <<>> /\ assigned = 0

replace_vars == <<json_obj, key, new_values, json_before, values_before, assigned>>

\* line 235 and lines 237-253
LoopHead ==
    /\ pc = "for"
    /\ IF i < args.num_runs
       THEN /\ output_filepath' = run_output_filepath(args, i)
            /\ pc' = "evaluate_vars"
       ELSE /\ pc' = "exit"
            /\ UNCHANGED output_filepath
    /\ UNCHANGED <<exception, raised_at, args, vars, i, original_terrain_json,
                   terrain_data, entry_data, bindings, b, before_binding, temp_file,
                   dumps, builds>>
    /\ UNCHANGED replace_vars

\* line 255
EvaluateVars ==
    /\ pc = "evaluate_vars"
    /\ \E draws \in Draws(args.vars) :
          LET r == evaluate_vars(args, draws)
          IN /\ vars' = r.vars
             /\ exception' = IF r.exc = "none" THEN exception ELSE r.exc
             /\ raised_at' = IF r.exc = "none" THEN raised_at ELSE "evaluate_vars"
             /\ pc' = AfterCall(r.exc, "copy")
    /\ UNCHANGED <<args, i, original_terrain_json, output_filepath,
                   terrain_data, entry_data, bindings, b, before_binding, temp_file,
                   dumps, builds>>
    /\ UNCHANGED replace_vars

\* line 256: the argument of configure_terrain_file
CopyDocument ==
    /\ pc = "copy"
    /\ terrain_data' = original_terrain_json
    /\ entry_data' = original_terrain_json
    /\ bindings' = <<>> /\ b' = 0
    /\ before_binding' = [t |-> "absent"]
    /\ pc' = "PostBuildScript"
    /\ UNCHANGED <<exception, raised_at, args, vars, i, original_terrain_json,
                   output_filepath, temp_file, dumps, builds>>
    /\ UNCHANGED replace_vars

\* A statement of configure_terrain_file that ends with exc and leaves the
\* document as doc
ConfigureStep(at, r, next) ==
    /\ terrain_data' = r.doc
    /\ original_terrain_json' = SeenThroughOriginal(original_terrain_json, r.doc)
    /\ exception' = IF r.exc = "none" THEN exception ELSE r.exc
    /\ raised_at' = IF r.exc = "none" THEN raised_at ELSE at
    /\ pc' = AfterCall(r.exc, next)

\* line 152
SetPostBuildScript ==
    /\ pc = "PostBuildScript"
    /\ LET r == update_all_json_key(terrain_data, K_PostBuildScript,
                                    <<JStr(<<"@echo off">>)>>)
       IN ConfigureStep("PostBuildScript", [exc |-> r.exc, doc |-> r.obj], "Destination")
    /\ UNCHANGED <<args, vars, i, output_filepath, entry_data, bindings, b,
                   before_binding, temp_file, dumps, builds>>
    /\ UNCHANGED replace_vars

\* line 156
SetDestination ==
    /\ pc = "Destination"
    /\ LET r == update_all_json_key(terrain_data, K_Destination,
                                    <<JStr(output_filepath)>>)
       IN ConfigureStep("Destination", [exc |-> r.exc, doc |-> r.obj], "Variables")
    /\ UNCHANGED <<args, vars, i, output_filepath, entry_data, bindings, b,
                   before_binding, temp_file, dumps, builds>>
    /\ UNCHANGED replace_vars

\* line 166
UpdateVariables ==
    /\ pc = "Variables"
    /\ ConfigureStep("Variables", update_variables(terrain_data, vars), "Bindings")
    /\ UNCHANGED <<args, vars, i, output_filepath, entry_data, bindings, b,
                   before_binding, temp_file, dumps, builds>>
    /\ UNCHANGED replace_vars

\* lines 179-181
CollectBindings ==
    /\ pc = "Bindings"
    /\ LET r == collect_bindings(terrain_data)
       IN /\ bindings' = r.bindings
          /\ b' = 1
          /\ exception' = IF r.exc = "none" THEN exception ELSE r.exc
          /\ raised_at' = IF r.exc = "none" THEN raised_at ELSE "Bindings"
          /\ pc' = AfterCall(r.exc, "binding")
    /\ UNCHANGED <<args, vars, i, original_terrain_json, output_filepath,
                   terrain_data, entry_data, before_binding, temp_file, dumps,
                   builds>>
    /\ UNCHANGED replace_vars

\* lines 183-190: one binding
ProcessBinding ==
    /\ pc = "binding"
    /\ b <= Len(bindings)
    /\ ConfigureStep("binding", process_binding(terrain_data, bindings[b], vars),
                     "binding")
    /\ before_binding' = terrain_data
    /\ b' = b + 1
    /\ UNCHANGED <<args, vars, i, output_filepath, entry_data, bindings,
                   temp_file, dumps, builds>>
    /\ UNCHANGED replace_vars

\* line 193, and line 256 taking the result
ReturnDocument ==
    /\ pc = "binding"
    /\ b > Len(bindings)
    /\ pc' = "dump"
    /\ UNCHANGED <<exception, raised_at, args, vars, i, original_terrain_json,
                   output_filepath, terrain_data, entry_data, bindings, b,
                   before_binding, temp_file, dumps, builds>>
    /\ UNCHANGED replace_vars

\* lines 259-265
DumpTempFile ==
    /\ pc = "dump"
    /\ temp_file' = terrain_data
    /\ dumps' = Append(dumps, i)
    /\ pc' = "run_gaea_build"
    /\ UNCHANGED <<exception, raised_at, args, vars, i, original_terrain_json,
                   output_filepath, terrain_data, entry_data, bindings, b,
                   before_binding, builds>>
    /\ UNCHANGED replace_vars

\* line 268: the tool is started on the temporary file and waited for
RunGaeaBuild ==
    /\ pc = "run_gaea_build"
    /\ builds' = Append(builds, i)
    /\ i' = i + 1
    /\ pc' = "for"
    /\ UNCHANGED <<exception, raised_at, args, vars, original_terrain_json,
                   output_filepath, terrain_data, entry_data, bindings, b,
                   before_binding, temp_file, dumps>>
    /\ UNCHANGED replace_vars

Next ==
    \/ LoopHead
    \/ EvaluateVars
    \/ CopyDocument
    \/ SetPostBuildScript
    \/ SetDestination
    \/ UpdateVariables
    \/ CollectBindings
    \/ ProcessBinding
    \/ ReturnDocument
    \/ DumpTempFile
    \/ RunGaeaBuild

Spec == Init /\ [][Next]_vars_all

----------------------------------------------------------------------------
(* Calls of update_all_json_key on generated documents *)

Leaves == {JInt(n) : n \in 0..MaxInt} \cup {JStr(<<"a">>), JBool(TRUE), JDict(<<>>)}
Keys == {<<"K">>, <<"x">>}

\* S, and the dicts of one or two items and the lists of one or two items over S
Grow(S) ==
    S \cup {JDict(<< <<k, v>> >>) : k \in Keys, v \in S}
      \cup {JDict(<< <<k[1], v[1]>>, <<k[2], v[2]>> >>) :
               k \in {kk \in Keys \X Keys : kk[1] # kk[2]}, v \in S \X S}
      \cup {JList(<<v>>) : v \in S}
      \cup {JList(<<v[1], v[2]>>) : v \in S \X S}

Documents == Grow(Grow(Leaves))

\* The j-th new value of a Python type
NewValue(ty, j) ==
    CASE ty = "int" -> JInt(10 + j)
      [] ty = "str" -> JStr(<<"v", DigitChars[j + 1]>>)
      [] ty = "bool" -> JBool(j % 2 = 0)
      [] ty = "dict" -> JDict(<< <<(<<"n">>), JInt(j)>> >>)
NewTypes == {"int", "str", "bool", "dict"}
NewValueLists ==
    {<<>>} \cup {[j \in 1..n |-> NewValue(ty, j)] : n \in 1..MaxVals, ty \in NewTypes}

NoDoc == [t |-> "absent"]
NoArgs == [terrain |-> NoDoc, vars |-> <<>>, num_runs |-> 0,
           increment_filepath |-> FALSE]

\* The variables of main, untouched by a call under check
MainIdle ==
    /\ args = NoArgs /\ vars = JDict(<<>>) /\ i = 0
    /\ original_terrain_json = NoDoc
    /\ output_filepath = <<>> /\ terrain_data = NoDoc /\ entry_data = NoDoc
    /\ bindings = <<>> /\ b = 0 /\ before_binding = NoDoc
    /\ temp_file = NoDoc /\ dumps = <<>> /\ builds = <<>>
main_vars == <<args, vars, i, original_terrain_json, output_filepath,
               terrain_data, entry_data, bindings, b, before_binding, temp_file,
               dumps, builds>>

InitReplace ==
    /\ pc = "call" /\ exception = "none" /\ raised_at = "none"
    /\ json_obj \in Documents
    /\ key = <<"K">>
    /\ new_values \in NewValueLists
    /\ json_before = json_obj
    /\ values_before = new_values
    /\ assigned = 0
    /\ MainIdle

CallUpdateAllJsonKey ==
    /\ pc = "call"
    /\ LET r == update_all_json_key(json_obj, key, new_values)
       IN /\ json_obj' = r.obj
          /\ new_values' = r.values
          /\ assigned' = r.assigned
          /\ exception' = r.exc
          /\ raised_at' = IF r.exc = "none" THEN "none" ELSE "update_all_json_key"
          /\ pc' = IF r.exc = "none" THEN "returned" ELSE "raised"
    /\ UNCHANGED <<key, json_before, values_before>>
    /\ UNCHANGED main_vars

NextReplace == CallUpdateAllJsonKey
SpecReplace == InitReplace /\ [][NextReplace]_vars_all

----------------------------------------------------------------------------
(* Occurrences of a key in a document, as the claims speak of them: every  *)
(* item of every dict, at any depth, whose key is the target, listed in    *)
(* dict-insertion then list order, an item before what its value holds.    *)
(* A path is a sequence of steps, [k |-> key] into a dict item and         *)
(* [ix |-> j] into a list item.                                            *)

RECURSIVE Occurrences(_, _, _)
RECURSIVE OccItems(_, _, _, _)
RECURSIVE OccList(_, _, _, _)
OccItems(kv, j, k0, prefix) ==
    IF j > Len(kv) THEN <<>>
    ELSE LET here == Append(prefix, [k |-> kv[j][1]])
         IN (IF kv[j][1] = k0 THEN <<here>> ELSE <<>>)
            \o Occurrences(kv[j][2], k0, here)
            \o OccItems(kv, j + 1, k0, prefix)
OccList(items, j, k0, prefix) ==
    IF j > Len(items) THEN <<>>
    ELSE Occurrences(items[j], k0, Append(prefix, [ix |-> j]))
         \o OccList(items, j + 1, k0, prefix)
Occurrences(obj, k0, prefix) ==
    IF obj.t = "dict" THEN OccItems(obj.kv, 1, k0, prefix)
    ELSE IF obj.t = "list" THEN OccList(obj.items, 1, k0, prefix)
    ELSE <<>>

\* the path leads to a value of the document
RECURSIVE HasPath(_, _)
HasPath(obj, p) ==
    IF p = <<>> THEN TRUE
    ELSE IF IsKeyStep(Head(p))
    THEN obj.t = "dict" /\ HasKey(obj, Head(p).k)
         /\ HasPath(GetItem(obj, Head(p).k), Tail(p))
    ELSE obj.t = "list" /\ Head(p).ix \in 1..Len(obj.items)
         /\ HasPath(obj.items[Head(p).ix], Tail(p))

\* the occurrences of key in the document the call was made on
OccBefore == Occurrences(json_before, key, <<>>)
CallDone == pc \in {"returned", "raised"} /\ raised_at \in {"none", "update_all_json_key"}
              /\ json_before # NoDoc

----------------------------------------------------------------------------
(* C1: when key occurs n > 0 times in D, all current values having the    *)
(* type T of the new values, and one value or n values are given, the call *)
(* returns, the i-th occurrence (every occurrence, for one value) holds    *)
(* the i-th value, exactly n assignments are made and the whole list is    *)
(* consumed.                                                               *)
C1_Homogeneous ==
    /\ Len(OccBefore) > 0
    /\ values_before # <<>>
    /\ Len(values_before) \in {1, Len(OccBefore)}
    /\ \A j \in 1..Len(OccBefore) :
          ValueAt(json_before, OccBefore[j]).t = values_before[1].t
C1_PositionalReplace ==
    (CallDone /\ C1_Homogeneous) =>
        /\ pc = "returned"
        /\ assigned = Len(OccBefore)
        /\ \A j \in 1..Len(OccBefore) :
              /\ HasPath(json_obj, OccBefore[j])
              /\ ValueAt(json_obj, OccBefore[j]) =
                    values_before[IF Len(values_before) = 1 THEN 1 ELSE j]

(* C4: when the type of the current value at some occurrence differs from  *)
(* the type of the first new value, the call fails with the type-mismatch  *)
(* error and the document is left as it was.                               *)
C4_SomeTypeDiffers ==
    /\ values_before # <<>>
    /\ \E j \in 1..Len(OccBefore) :
          ValueAt(json_before, OccBefore[j]).t # values_before[1].t
C4_TypeMismatchAllOrNothing ==
    (CallDone /\ C4_SomeTypeDiffers) =>
        /\ exception = "TypeError"
        /\ json_obj = json_before

(* C5 as stated: more than one value and a number of values other than    *)
(* the number of occurrences always fails with the count-mismatch error,   *)
(* and an empty list always fails with the empty-replacement error.        *)
C5_CountCase == Len(values_before) > 1 /\ Len(values_before) # Len(OccBefore)
C5_AlwaysCountMismatch ==
    CallDone =>
        /\ C5_CountCase => exception = "ValueError: count"
        /\ values_before = <<>> => exception = "ValueError: empty"

(* C5 amended: such a call always fails, with the type-mismatch error      *)
(* when the current value at some occurrence is not an instance of the     *)
(* type of the first new value (the dry run raises before the count is     *)
(* compared), and with the count-mismatch error otherwise; an empty list   *)
(* always fails with the empty-replacement error. The document is left as  *)
(* it was in each case.                                                    *)
C5_NotInstance(v, sample) == v.t # sample.t /\ ~(v.t = "bool" /\ sample.t = "int")
C5_DryRunRaises ==
    \E j \in 1..Len(OccBefore) :
        C5_NotInstance(ValueAt(json_before, OccBefore[j]), values_before[1])
C5_CountOrTypeMismatch ==
    CallDone =>
        /\ C5_CountCase =>
              /\ exception = (IF C5_DryRunRaises THEN "TypeError" ELSE "ValueError: count")
              /\ json_obj = json_before
        /\ values_before = <<>> =>
              /\ exception = "ValueError: empty"
              /\ json_obj = json_before
C5_Witness ==
    /\ CallDone /\ C5_CountCase /\ ~C5_DryRunRaises
    /\ Len(OccBefore) > 0
    /\ exception = "ValueError: count"

----------------------------------------------------------------------------
(* C8: evaluate_vars returns a table for every list of assignments and     *)
(* never raises; an assignment is split on its first "=" only, so every    *)
(* assignment whose text after the first "=" is an integer is in the table *)
(* with that value (unless a later assignment of the same name replaced    *)
(* it), whatever the other assignments of the list are.                    *)
EvalDone == pc \in {"returned", "raised"} /\ raised_at \in {"none", "evaluate_vars"}
              /\ json_before = NoDoc /\ original_terrain_json = NoDoc
C8_FirstEq(a) == CHOOSE m \in 1..Len(a) : a[m] = "=" /\ \A q \in 1..(m - 1) : a[q] # "="
C8_HasEq(a) == \E m \in 1..Len(a) : a[m] = "="
C8_Name(a) == SubSeq(a, 1, C8_FirstEq(a) - 1)
C8_Expr(a) == SubSeq(a, C8_FirstEq(a) + 1, Len(a))
C8_EvaluateNeverRaises ==
    (EvalDone /\ \A j \in 1..Len(args.vars) : C8_HasEq(args.vars[j])) =>
        /\ pc = "returned"
        /\ \A j \in 1..Len(args.vars) :
              LET a == args.vars[j]
              IN (/\ C8_HasEq(a)
                  /\ IsDigits(C8_Expr(a))
                  /\ \A m \in (j + 1)..Len(args.vars) :
                        C8_HasEq(args.vars[m]) => C8_Name(args.vars[m]) # C8_Name(a))
                 => /\ HasKey(vars, C8_Name(a))
                    /\ GetItem(vars, C8_Name(a)) = JInt(DigitsValue(C8_Expr(a)))

----------------------------------------------------------------------------
(* The sections of a document, as the claims speak of them *)

\* the paths of the maps that are nodes: the dict values of the map under
\* every 'Nodes' key, at any depth
RECURSIVE ItemsOf(_, _, _)
ItemsOf(doc, p, j) ==
    LET m == ValueAt(doc, p)
    IN IF m.t # "dict" \/ j > Len(m.kv) THEN {}
       ELSE (IF m.kv[j][2].t = "dict" THEN {Append(p, [k |-> m.kv[j][1]])} ELSE {})
            \cup ItemsOf(doc, p, j + 1)
NodesOf(doc) ==
    LET occ == Occurrences(doc, K_Nodes, <<>>)
    IN UNION {ItemsOf(doc, occ[j], 1) : j \in 1..Len(occ)}

\* the bindings under every 'Bindings' key, in document order
RECURSIVE BindingsFrom(_, _, _)
BindingsFrom(doc, occ, j) ==
    IF j > Len(occ) THEN <<>>
    ELSE GetItem(ValueAt(doc, occ[j]), K_values).items \o BindingsFrom(doc, occ, j + 1)
BindingsOf(doc) == BindingsFrom(doc, Occurrences(doc, K_Bindings, <<>>), 1)

B_Node(bd) == GetItem(bd, K_Node)
B_Property(bd) == GetItem(bd, K_Property).s
B_Variable(bd) == GetItem(bd, K_Variable).s
NodeId(doc, np) == GetItem(ValueAt(doc, np), K_Id)

\* the binding has a value in the table and names a node of the document
HasVariable(bd) == HasKey(vars, B_Variable(bd))
HasNode(doc, bd) == \E np \in NodesOf(doc) : NodeId(doc, np) = B_Node(bd)
\* no binding after the j-th, up to the n-th, writes the same property of
\* the same node
LastWriter(bl, j, n) ==
    \A m \in (j + 1)..n :
        ~(/\ HasVariable(bl[m]) /\ B_Node(bl[m]) = B_Node(bl[j])
          /\ B_Property(bl[m]) = B_Property(bl[j]))

\* configure_terrain_file has returned and main holds its result
Configured == pc = "dump"

\* the string form of an int of the variable table
StringForm(v) == JStr(IntStr(v.n))

\* every binding with a variable and a node has its value, in string form
\* ("str") or as evaluated ("value"), in the named property of every node
\* it names
NodesHold(bl, n, doc, form) ==
    \A j \in 1..n : \A np \in NodesOf(doc) :
        (/\ HasVariable(bl[j]) /\ NodeId(doc, np) = B_Node(bl[j])
         /\ LastWriter(bl, j, n))
        => /\ HasKey(ValueAt(doc, np), B_Property(bl[j]))
           /\ GetItem(ValueAt(doc, np), B_Property(bl[j]))
                 = (IF form = "str"
                    THEN StringForm(GetItem(vars, B_Variable(bl[j])))
                    ELSE GetItem(vars, B_Variable(bl[j])))
\* every entry of a 'Variables' map whose key is in the table holds the
\* string form of the value
VariablesHold(doc) ==
    LET occ == Occurrences(doc, K_Variables, <<>>)
    IN \A j \in 1..Len(occ) :
          LET m == ValueAt(doc, occ[j])
          IN \A e \in 1..Len(m.kv) :
                HasKey(vars, m.kv[e][1]) =>
                    m.kv[e][2] = StringForm(GetItem(vars, m.kv[e][1]))


(* C2 as stated: after configure_terrain_file returns, the bound property  *)
(* of every node a binding with a variable names holds the string form of  *)
(* the variable's value, and so does every entry of a 'Variables' map      *)
(* whose key is a variable.                                                *)
C2_NodesHoldStringForm ==
    Configured =>
        /\ NodesHold(BindingsOf(entry_data), Len(BindingsOf(entry_data)),
                     terrain_data, "str")
        /\ VariablesHold(terrain_data)

(* C2 amended: the bound property holds the variable's value as            *)
(* evaluate_vars produced it (the int, not its string form), that of the   *)
(* last binding in list order when several write the same property of the  *)
(* same node; the entries of the 'Variables' maps hold the string form.    *)
C2_NodesHoldValue ==
    Configured =>
        /\ NodesHold(BindingsOf(entry_data), Len(BindingsOf(entry_data)),
                     terrain_data, "value")
        /\ VariablesHold(terrain_data)
\* the example of the specification: vars = {s: 42}, one binding of node 1's
\* Seed to s, sections at the top level
C2_Witness ==
    /\ Configured
    /\ vars = JDict(<< <<(<<"s">>), JInt(42)>> >>)
    /\ BindingsOf(entry_data) = <<Binding(1, <<"Seed">>, <<"s">>)>>
    /\ HasKey(terrain_data, K_Nodes)
    /\ GetItem(GetItem(GetItem(terrain_data, K_Nodes), <<"a">>), <<"Seed">>) = JInt(42)
    /\ GetItem(GetItem(terrain_data, K_Variables), <<"s">>) = JStr(<<"4", "2">>)
    /\ GetItem(GetItem(entry_data, K_Variables), <<"s">>) = JStr(<<"0">>)

(* C3: before every run the document main loaded is equal, at every depth, *)
(* to the document as it was loaded from the file.                         *)
C3_OriginalNeverMutated ==
    (pc \in {"evaluate_vars", "copy"}) => original_terrain_json = args.terrain

(* C6 as stated: processing one binding changes at most one node.          *)
BindingProcessed == pc = "binding" /\ b > 1 /\ before_binding # NoDoc
ChangedNodes ==
    {np \in NodesOf(before_binding) :
        ValueAt(terrain_data, np) # ValueAt(before_binding, np)}
C6_AtMostOneNodeChanged ==
    BindingProcessed => Cardinality(ChangedNodes) <= 1

(* C6 amended: processing one binding writes only the named property of    *)
(* the nodes whose Id equals binding.Node, of every such node in every     *)
(* 'Nodes' map, and leaves every node with another Id unchanged; where no  *)
(* two nodes of the document share an Id, at most one node changes.        *)
UniqueIds(doc) ==
    \A np \in NodesOf(doc) : \A nq \in NodesOf(doc) :
        NodeId(doc, np) = NodeId(doc, nq) => np = nq
C6_OnlyNamedNodesChanged ==
    BindingProcessed =>
        LET bd == bindings[b - 1]
        IN /\ \A np \in NodesOf(before_binding) :
                 ValueAt(terrain_data, np) =
                    IF HasVariable(bd) /\ NodeId(before_binding, np) = B_Node(bd)
                    THEN SetItem(ValueAt(before_binding, np), B_Property(bd),
                                 GetItem(vars, B_Variable(bd)))
                    ELSE ValueAt(before_binding, np)
           /\ UniqueIds(before_binding) => Cardinality(ChangedNodes) <= 1
C6_Witness ==
    /\ BindingProcessed
    /\ Len(Occurrences(before_binding, K_Nodes, <<>>)) = 2
    /\ Cardinality(ChangedNodes) = 1

(* C7: a binding whose variable is not in the table, or whose Node is the  *)
(* Id of no node, is skipped without raising and without effect, and every *)
(* binding processed so far that has a variable and a node is applied.     *)
Skipped(doc, bd) == ~HasVariable(bd) \/ ~HasNode(doc, bd)
RECURSIVE Shape(_, _)
Shape(obj, prefix) ==
    IF obj.t = "dict"
    THEN UNION {{Append(prefix, [k |-> obj.kv[j][1]])}
                  \cup Shape(obj.kv[j][2], Append(prefix, [k |-> obj.kv[j][1]])) :
                j \in 1..Len(obj.kv)}
    ELSE IF obj.t = "list"
    THEN UNION {{Append(prefix, [ix |-> j])}
                  \cup Shape(obj.items[j], Append(prefix, [ix |-> j])) :
                j \in 1..Len(obj.items)}
    ELSE {}

(* C9 as stated: the key paths of the returned document are those of the   *)
(* document passed in.                                                     *)
C9_ShapeUnchanged ==
    Configured => Shape(terrain_data, <<>>) = Shape(entry_data, <<>>)

(* C9 amended: no key is removed and no sequence changes its length, and   *)
(* the only keys added are the Property of a binding, in a node the        *)
(* binding names that had no such property (the values overwritten being   *)
(* scalars).                                                               *)
C9_KeysKeptPropertiesAdded ==
    Configured =>
        /\ Shape(entry_data, <<>>) \subseteq Shape(terrain_data, <<>>)
        /\ \A p \in Shape(terrain_data, <<>>) \ Shape(entry_data, <<>>) :
              \E j \in 1..Len(bindings) : \E np \in NodesOf(entry_data) :
                  /\ HasVariable(bindings[j])
                  /\ NodeId(entry_data, np) = B_Node(bindings[j])
                  /\ ~HasKey(ValueAt(entry_data, np), B_Property(bindings[j]))
                  /\ p = Append(np, [k |-> B_Property(bindings[j])])
C9_Witness ==
    /\ Configured
    /\ Shape(terrain_data, <<>>) # Shape(entry_data, <<>>)
    /\ terrain_data # entry_data

(* C10: a run in which replacing 'PostBuildScript' or 'Destination' fails  *)
(* writes no temporary file and starts no build; and the tool is started   *)
(* in a run only on the document configure_terrain_file returned in that   *)
(* run, after it was written to the temporary file.                        *)
C10_AbortBeforeBuild ==
    /\ (exception # "none" /\ raised_at \in {"PostBuildScript", "Destination"}) =>
          /\ \A j \in 1..Len(dumps) : dumps[j] # i
          /\ \A j \in 1..Len(builds) : builds[j] # i
    /\ pc = "run_gaea_build" =>
          /\ exception = "none"
          /\ dumps # <<>> /\ dumps[Len(dumps)] = i
          /\ temp_file = terrain_data
    /\ \A j \in 1..Len(builds) : j <= Len(dumps) /\ dumps[j] = builds[j]
C10_Witness ==
    /\ pc = "raised" /\ exception = "TypeError" /\ raised_at = "Destination"
    /\ terrain_data # entry_data
    /\ dumps = <<>> /\ builds = <<>>

====
